---------------------------- MODULE Spec2Model ----------------------------
(***************************************************************************)
(* A model of truth_table.py: the candidate filter (probably_truthy), the  *)
(* expression collector (collect_bool_ops), the operand extractor          *)
(* (collect_names over OrderedSet and Name), the evaluator (evaluate), the *)
(* table builder (truth_table) and the renderer (simple_table).            *)
(*                                                                         *)
(* The source is Python 2 (collections.MutableSet at line 31, and          *)
(* map(...) + [...] at line 182).  There a class that defines __eq__ and   *)
(* no __hash__ keeps object.__hash__, so a Name hashes by object identity. *)
(*                                                                         *)
(* An AST node is a record [kind, op, id, kids]; its identity is its path  *)
(* from the root of the tree it belongs to (the sequence of child          *)
(* positions), which is what `is` and the default hash of ast.AST compare. *)
(* Text is a sequence of one-character strings.                            *)
(***************************************************************************)
EXTENDS Integers, Sequences, FiniteSets, TLC

VARIABLES pc, node, names, conditions, condition, value, rows, bool_ops, sep, text

vars == <<pc, node, names, conditions, condition, value, rows, bool_ops, sep, text>>

(***************************************************************************)
(* Bounds of the model.                                                    *)
(***************************************************************************)
\* nodes of an expression handed to truth_table / evaluate
MaxExprNodes == 4
\* nodes of a tree handed to collect_bool_ops / probably_truthy
MaxTreeNodes == 4
\* cells of a table handed to simple_table directly
MaxCells == 4
\* characters of a text cell handed to simple_table directly
MaxText == 1

(***************************************************************************)
(* AST nodes.                                                              *)
(***************************************************************************)
Node(kind, op, id, kids) == [kind |-> kind, op |-> op, id |-> id, kids |-> kids]

\* the operator object of a BoolOp / UnaryOp: an AST node without fields
OpNode(n) == Node(n.op, "", "", <<>>)

ClassName(n) == n.kind

RECURSIVE Concat(_)
Concat(ss) == IF ss = <<>> THEN <<>> ELSE Head(ss) \o Concat(Tail(ss))

RECURSIVE Forests(_, _, _)
\* the sequences of k trees with n nodes in all, bySize[m] being the trees
\* of m nodes
Forests(bySize, n, k) ==
    IF k = 0 THEN (IF n = 0 THEN {<<>>} ELSE {})
    ELSE UNION { LET rest == Forests(bySize, n - m, k - 1)
                 IN { <<t>> \o f : t \in bySize[m], f \in rest }
                 : m \in 1..(n - (k - 1)) }

RECURSIVE TreesBySize(_, _)
\* the trees of grammar G with 1, ..., n nodes: G.unary have one child,
\* G.nary any number, G.call at least one
TreesBySize(G, n) ==
    IF n = 1 THEN << G.leaves \cup { Node(c.kind, c.op, "", <<>>) : c \in G.nary } >>
    ELSE LET bySize == TreesBySize(G, n - 1)
             one    == Forests(bySize, n - 1, 1)
             more   == UNION { Forests(bySize, n - 1, k) : k \in 2..(n - 1) }
         IN Append(bySize,
                   { Node(c.kind, c.op, "", f) : c \in G.unary, f \in one }
                   \cup { Node(c.kind, c.op, "", f) : c \in G.nary \cup G.call,
                                                     f \in one \cup more })

TreesUpTo(G, n) == LET bySize == TreesBySize(G, n) IN UNION { bySize[m] : m \in 1..n }

Class(kind, op) == [kind |-> kind, op |-> op]

\* the expressions handed to truth_table and evaluate
ExprGrammar ==
    [leaves |-> { Node("Name", "", "a", <<>>), Node("Name", "", "b", <<>>) },
     unary  |-> { Class("UnaryOp", "Not"), Class("UnaryOp", "USub") },
     nary   |-> { Class("BoolOp", "And"), Class("BoolOp", "Or") },
     call   |-> {}]

\* the trees handed to probably_truthy and collect_bool_ops: the literal
\* kinds, a Name, BoolOps (neither function reads the operator), Nots, and a
\* node that is none of these, with a node-valued and a list-valued field
TreeGrammar ==
    [leaves |-> { Node("Name", "", "a", <<>>), Node("Str", "", "x", <<>>),
                  Node("Num", "", "1", <<>>), Node("List", "", "", <<>>),
                  Node("Set", "", "", <<>>), Node("Dict", "", "", <<>>) },
     unary  |-> { Class("UnaryOp", "Not") },
     nary   |-> { Class("BoolOp", "And") },
     call   |-> { Class("Call", "") }]


NameNode(id) == Node("Name", "", id, <<>>)
BoolOpNode(op, values) == Node("BoolOp", op, "", values)
NotNode(operand) == Node("UnaryOp", "Not", "", <<operand>>)

\* the example expressions of the source's `if False:` block that are BoolOps:
\* a and b;  a and b or c;  a and (b or c);  a and not a + b
Examples ==
    { BoolOpNode("And", <<NameNode("a"), NameNode("b")>>),
      BoolOpNode("Or", <<BoolOpNode("And", <<NameNode("a"), NameNode("b")>>), NameNode("c")>>),
      BoolOpNode("And", <<NameNode("a"), BoolOpNode("Or", <<NameNode("b"), NameNode("c")>>)>>),
      BoolOpNode("And", <<NameNode("a"),
                          NotNode(Node("BinOp", "Add", "", <<NameNode("a"), NameNode("b")>>))>>) }

Exprs == TreesUpTo(ExprGrammar, MaxExprNodes) \cup Examples

Trees == TreesUpTo(TreeGrammar, MaxTreeNodes) \cup Examples

\* the subtree of root at path
RECURSIVE NodeAt(_, _)
NodeAt(root, path) ==
    IF path = <<>> THEN root ELSE NodeAt(root.kids[Head(path)], Tail(path))

\* the paths of the nodes of a tree rooted at path `at`
RECURSIVE Paths(_, _)
Paths(n, at) ==
    {at} \cup UNION { Paths(n.kids[i], Append(at, i)) : i \in 1..Len(n.kids) }

(***************************************************************************)
(* astunparse.unparse(node).strip(): the label of a node.                  *)
(***************************************************************************)
Whitespace == {" ", "\n", "\t"}

RECURSIVE Interleave(_, _)
Interleave(sepr, texts) ==
    IF texts = <<>> THEN <<>>
    ELSE IF Len(texts) = 1 THEN texts[1]
    ELSE texts[1] \o sepr \o Interleave(sepr, Tail(texts))

RECURSIVE dispatch(_)
dispatch(n) ==
    LET kidsText == [i \in 1..Len(n.kids) |-> dispatch(n.kids[i])] IN
    CASE n.kind = "Name" -> <<n.id>>
      [] n.kind = "Num"  -> <<n.id>>
      [] n.kind = "Str"  -> <<"'">> \o <<n.id>> \o <<"'">>
      [] n.kind = "BoolOp" ->
            <<"(">> \o Interleave(IF n.op = "And" THEN <<" ", "a", "n", "d", " ">>
                                                  ELSE <<" ", "o", "r", " ">>, kidsText)
                    \o <<")">>
      [] n.kind = "UnaryOp" ->
            <<"(">> \o (IF n.op = "Not" THEN <<"n", "o", "t">> ELSE <<"-">>)
                    \o <<" ">> \o kidsText[1] \o <<")">>
      [] n.kind = "BinOp" -> <<"(">> \o kidsText[1] \o <<" ", "+", " ">> \o kidsText[2] \o <<")">>
      [] n.kind = "List" -> <<"[">> \o Interleave(<<",", " ">>, kidsText) \o <<"]">>
      [] n.kind = "Set"  -> <<"{">> \o Interleave(<<",", " ">>, kidsText) \o <<"}">>
      [] n.kind = "Dict" -> <<"{">> \o Interleave(<<",", " ">>, kidsText) \o <<"}">>
      [] n.kind = "Call" ->
            kidsText[1] \o <<"(">> \o Interleave(<<",", " ">>, Tail(kidsText)) \o <<")">>
      [] OTHER -> Concat(kidsText)

\* the unparser ends its output with a newline
unparse(n) == dispatch(n) \o <<"\n">>

RECURSIVE lstrip(_)
lstrip(s) == IF s # <<>> /\ Head(s) \in Whitespace THEN lstrip(Tail(s)) ELSE s

RECURSIVE rstrip(_)
rstrip(s) ==
    IF s # <<>> /\ s[Len(s)] \in Whitespace THEN rstrip(SubSeq(s, 1, Len(s) - 1)) ELSE s

strip(s) == rstrip(lstrip(s))

(***************************************************************************)
(* class Name: a label and the identities of the nodes that carry it.  obj *)
(* is the identity of the Name object itself (the node it was made for).   *)
(***************************************************************************)
Name_init(name, at) == [name |-> name, nodes |-> {at}, obj |-> at]

\* Name.__eq__ against another Name
Name_eq(self, other) == self.name = other.name

\* Name.__eq__ against an ast.AST
Name_eq_ast(self, at) == at \in self.nodes

\* Name.__or__: merges the node sets in place (the code asserts equal names)
Name_or(self, other) == [self EXCEPT !.nodes = self.nodes \cup other.nodes]

Name_str(self) == self.name

\* a hash made from the label, as a __hash__ matching __eq__ would be
Name_hash_label(self) == self.name

\* Name defines no __hash__: object.__hash__, by identity
Name_hash(self) == self.obj

(***************************************************************************)
(* class OrderedSet: the keys in insertion order.                          *)
(***************************************************************************)
\* dict lookup of a key: equal hash, then identical or __eq__
KeyMatch(k1, k2) ==
    Name_hash(k1) = Name_hash(k2) /\ (k1.obj = k2.obj \/ Name_eq(k1, k2))

OrderedSet_contains(self, key) == \E i \in 1..Len(self) : KeyMatch(self[i], key)

OrderedSet_add(self, key) ==
    IF ~OrderedSet_contains(self, key) THEN Append(self, key) ELSE self

\* MutableSet.__ior__: add every value of the iterable
RECURSIVE OrderedSet_ior(_, _)
OrderedSet_ior(self, it) ==
    IF it = <<>> THEN self ELSE OrderedSet_ior(OrderedSet_add(self, Head(it)), Tail(it))

OrderedSet_init(iterable) == OrderedSet_ior(<<>>, iterable)

\* Set.__or__: a new set from the chain of both
OrderedSet_or(self, other) == OrderedSet_init(self \o other)

\* list(names).index(value) for an AST node; 0 stands for ValueError
list_index(nameList, at) ==
    IF \E i \in 1..Len(nameList) : Name_eq_ast(nameList[i], at)
    THEN CHOOSE i \in 1..Len(nameList) :
            /\ Name_eq_ast(nameList[i], at)
            /\ \A j \in 1..(i - 1) : ~Name_eq_ast(nameList[j], at)
    ELSE 0

(***************************************************************************)
(* collect_names                                                           *)
(***************************************************************************)
RECURSIVE collect_names(_, _), collect_names_values(_, _, _, _)
collect_names(n, at) ==
    IF ClassName(n) = "BoolOp" THEN collect_names_values(n, at, 1, OrderedSet_init(<<>>))
    ELSE IF ClassName(n) = "UnaryOp"
    THEN OrderedSet_or(OrderedSet_init(<<>>), collect_names(n.kids[1], Append(at, 1)))
    ELSE OrderedSet_or(OrderedSet_init(<<>>),
                       OrderedSet_init(<<Name_init(strip(unparse(n)), at)>>))

\* the loop over node.values from position i on
collect_names_values(n, at, i, acc) ==
    IF i > Len(n.kids) THEN acc
    ELSE LET v == n.kids[i]
             vat == Append(at, i)
             next == IF ClassName(v) \in {"BoolOp", "UnaryOp"}
                     THEN OrderedSet_or(acc, collect_names(v, vat))
                     ELSE OrderedSet_or(acc,
                              OrderedSet_init(<<Name_init(strip(unparse(v)), vat)>>))
         IN collect_names_values(n, at, i + 1, next)

(***************************************************************************)
(* evaluate: a result is a returned value or a raised exception.           *)
(***************************************************************************)
Return(v) == [exc |-> "", val |-> v]
Raise(e) == [exc |-> e, val |-> FALSE]

\* all() taken for any()
all_any(s) == \E i \in 1..Len(s) : s[i]

all(s) == \A i \in 1..Len(s) : s[i]
any(s) == \E i \in 1..Len(s) : s[i]

RECURSIVE evaluate(_, _, _, _), evaluate_values(_, _, _, _, _, _)
evaluate(n, at, nameSet, conds) ==
    IF Len(nameSet) # Len(conds) THEN Raise("AssertionError")
    ELSE IF ClassName(n) = "BoolOp" THEN
        LET r == evaluate_values(n, at, 1, <<>>, nameSet, conds) IN
        IF r.exc # "" THEN Raise(r.exc)
        ELSE IF n.op = "And" THEN Return(all(r.val))
        ELSE IF n.op = "Or" THEN Return(any(r.val))
        ELSE Raise("NotImplementedError")
    ELSE IF ClassName(n) = "UnaryOp" THEN
        IF n.op = "Not"
        THEN LET r == evaluate(n.kids[1], Append(at, 1), nameSet, conds)
             IN IF r.exc # "" THEN r ELSE Return(~r.val)
        ELSE Raise("NotImplementedError")
    ELSE LET idx == list_index(nameSet, at)
         IN IF idx = 0 THEN Raise("ValueError") ELSE Return(conds[idx])

\* the loop over node.values from position i on; result is the list built so far
evaluate_values(n, at, i, result, nameSet, conds) ==
    IF i > Len(n.kids) THEN [exc |-> "", val |-> result]
    ELSE LET vat == Append(at, i)
             idx == list_index(nameSet, vat)
             r   == IF idx # 0 THEN Return(conds[idx])
                    ELSE evaluate(n.kids[i], vat, nameSet, conds)
         IN IF r.exc # "" THEN [exc |-> r.exc, val |-> result]
            ELSE evaluate_values(n, at, i + 1, Append(result, r.val), nameSet, conds)

(***************************************************************************)
(* truth_table                                                             *)
(***************************************************************************)
\* the product with the first position varying fastest
RECURSIVE product_lsb(_, _)
product_lsb(pool, repeat) ==
    IF repeat = 0 THEN << <<>> >>
    ELSE LET result == product_lsb(pool, repeat - 1)
         IN [k \in 1..(Len(result) * Len(pool)) |->
                <<pool[((k - 1) % Len(pool)) + 1]>>
                    \o result[((k - 1) \div Len(pool)) + 1]]

\* itertools.product(pool, repeat=n): result = [x + [y] for x in result for y in pool]
RECURSIVE product(_, _)
product(pool, repeat) ==
    IF repeat = 0 THEN << <<>> >>
    ELSE LET result == product(pool, repeat - 1)
         IN [k \in 1..(Len(result) * Len(pool)) |->
                Append(result[((k - 1) \div Len(pool)) + 1],
                       pool[((k - 1) % Len(pool)) + 1])]

\* a cell of a row: a str or a bool
StrCell(s) == [py |-> "str", s |-> s, b |-> FALSE]
BoolCell(b) == [py |-> "bool", s |-> <<>>, b |-> b]

RECURSIVE truth_table_rows(_, _, _, _, _, _)
\* the loop over conditions from position i on
truth_table_rows(n, at, nameSet, conds, i, acc) ==
    IF i > Len(conds) THEN [exc |-> "", rows |-> acc]
    ELSE LET r == evaluate(n, at, nameSet, conds[i])
         IN IF r.exc # "" THEN [exc |-> r.exc, rows |-> acc]
            ELSE truth_table_rows(n, at, nameSet, conds, i + 1,
                    Append(acc, [j \in 1..(Len(conds[i]) + 1) |->
                                    IF j <= Len(conds[i]) THEN BoolCell(conds[i][j])
                                    ELSE BoolCell(r.val)]))

truth_table(n, at) ==
    LET nameSet == collect_names(n, at)
        conds   == product(<<FALSE, TRUE>>, Len(nameSet))
        header  == [j \in 1..(Len(nameSet) + 1) |->
                       IF j <= Len(nameSet) THEN StrCell(Name_str(nameSet[j]))
                       ELSE StrCell(strip(unparse(n)))]
        r       == truth_table_rows(n, at, nameSet, conds, 1, <<header>>)
    IN [exc |-> r.exc, rows |-> r.rows, names |-> nameSet, conditions |-> conds]

(***************************************************************************)
(* simple_table                                                            *)
(***************************************************************************)
\* the default of simple_table's sep parameter
DefaultSep == 4

\* str(column) of a cell
str(c) ==
    IF c.py = "bool"
    THEN (IF c.b THEN <<"T", "r", "u", "e">> ELSE <<"F", "a", "l", "s", "e">>)
    ELSE c.s

Repeat(ch, k) == [i \in 1..k |-> ch]

\* centring with the larger half of the padding on the left
format_center_left(s, width) ==
    IF Len(s) >= width THEN s
    ELSE LET pad   == width - Len(s)
             right == pad \div 2
         IN Repeat(" ", pad - right) \o s \o Repeat(" ", right)

\* '{:^{}}'.format(s, width): the left padding is the smaller half
format_center(s, width) ==
    IF Len(s) >= width THEN s
    ELSE LET pad  == width - Len(s)
             left == pad \div 2
         IN Repeat(" ", left) \o s \o Repeat(" ", pad - left)

\* the loop over the cells of the rows: the largest length seen, from 0
RECURSIVE column_size(_, _, _, _)
column_size(lol, i, r, size) ==
    IF r > Len(lol) THEN size
    ELSE LET length == Len(str(lol[r][i]))
         IN column_size(lol, i, r + 1, IF size < length THEN length ELSE size)

simple_table(lol, sp) ==
    LET column_sizes == [i \in 1..Len(lol[1]) |-> column_size(lol, i, 1, 0) + sp]
        line(cells)  == Concat([i \in 1..Len(column_sizes) |->
                                   format_center(cells[i], column_sizes[i])])
        rowLine(r)   == line([i \in 1..Len(column_sizes) |-> str(lol[r][i])])
        dashLine     == line([i \in 1..Len(column_sizes) |->
                                 Repeat("-", column_sizes[i] - sp)])
        result       == <<rowLine(1), dashLine>>
                        \o [r \in 1..(Len(lol) - 1) |-> rowLine(r + 1)]
    IN Interleave(<<"\n">>, result)

(***************************************************************************)
(* probably_truthy and collect_bool_ops                                    *)
(***************************************************************************)
LiteralKinds == {"Str", "Num", "List", "Set", "Dict"}

\* the filter without the descent into nested BoolOps
probably_truthy_shallow(n) ==
    IF ~(ClassName(n) = "BoolOp") THEN FALSE
    ELSE \A i \in 1..Len(n.kids) : ClassName(n.kids[i]) \notin LiteralKinds

RECURSIVE probably_truthy(_)
probably_truthy(n) ==
    LET test(v) == IF ClassName(v) = "BoolOp" THEN probably_truthy(v)
                   ELSE ClassName(v) \notin LiteralKinds
    IN IF ~(ClassName(n) = "BoolOp") THEN FALSE
       ELSE \A i \in 1..Len(n.kids) : test(n.kids[i])

\* a field value: a list of nodes, one node, or a scalar
Field(tag, items) == [tag |-> tag, items |-> items]
Item(n, at) == [n |-> n, at |-> at]

KidItems(n, at, from, to) ==
    [j \in 1..(to - from + 1) |-> Item(n.kids[from + j - 1], Append(at, from + j - 1))]

\* ast.iter_fields(node): the values of node._fields in order.  The operator
\* of a BoolOp / UnaryOp and the context of a Name / List are nodes without
\* fields (position 0 under their owner).
iter_fields(n, at) ==
    LET k == Len(n.kids) IN
    CASE n.kind = "BoolOp"  -> << Field("ast", <<Item(OpNode(n), Append(at, 0))>>),
                                  Field("list", KidItems(n, at, 1, k)) >>
      [] n.kind = "UnaryOp" -> << Field("ast", <<Item(OpNode(n), Append(at, 0))>>),
                                  Field("ast", KidItems(n, at, 1, 1)) >>
      [] n.kind = "BinOp"   -> << Field("ast", KidItems(n, at, 1, 1)),
                                  Field("ast", <<Item(OpNode(n), Append(at, 0))>>),
                                  Field("ast", KidItems(n, at, 2, 2)) >>
      [] n.kind = "Name"    -> << Field("scalar", <<>>),
                                  Field("ast", <<Item(Node("Load", "", "", <<>>),
                                                      Append(at, 0))>>) >>
      [] n.kind = "Str"     -> << Field("scalar", <<>>) >>
      [] n.kind = "Num"     -> << Field("scalar", <<>>) >>
      [] n.kind = "List"    -> << Field("list", KidItems(n, at, 1, k)),
                                  Field("ast", <<Item(Node("Load", "", "", <<>>),
                                                      Append(at, 0))>>) >>
      [] n.kind = "Set"     -> << Field("list", KidItems(n, at, 1, k)) >>
      [] n.kind = "Dict"    -> << Field("list", KidItems(n, at, 1, k \div 2)),
                                  Field("list", KidItems(n, at, (k \div 2) + 1, k)) >>
      [] n.kind = "Call"    -> << Field("ast", KidItems(n, at, 1, 1)),
                                  Field("list", KidItems(n, at, 2, k)) >>
      [] OTHER              -> << >>

RECURSIVE collect_bool_ops(_, _), collect_fields(_, _), collect_items(_, _)
\* the collector that does not look inside a node it collected
collect_bool_ops_pruned(n, at) ==
    IF ClassName(n) = "BoolOp" /\ probably_truthy(n) THEN <<at>>
    ELSE collect_fields(iter_fields(n, at), 1)

\* the identities (paths) of the collected nodes, in the order of the list
collect_bool_ops(n, at) ==
    (IF ClassName(n) = "BoolOp" /\ probably_truthy(n) THEN <<at>> ELSE <<>>)
    \o collect_fields(iter_fields(n, at), 1)

\* the loop over the fields from position f on
collect_fields(fields, f) ==
    IF f > Len(fields) THEN <<>>
    ELSE (IF fields[f].tag = "list" THEN collect_items(fields[f].items, 1)
          ELSE IF fields[f].tag = "ast"
          THEN collect_bool_ops(fields[f].items[1].n, fields[f].items[1].at)
          ELSE <<>>)
         \o collect_fields(fields, f + 1)

\* the loop over the items of a list-valued field from position j on
collect_items(items, j) ==
    IF j > Len(items) THEN <<>>
    ELSE collect_bool_ops(items[j].n, items[j].at) \o collect_items(items, j + 1)

(***************************************************************************)
(* Spec: the calls on one expression.  truth_table(node) and then          *)
(* simple_table of its rows, as the main block does for every collected    *)
(* expression; or evaluate(node, names, conditions) called directly with   *)
(* an operand list of the caller.                                          *)
(***************************************************************************)
NoValue == Return(FALSE)

\* the nodes evaluate looks up as they are: neither BoolOp nor UnaryOp
RECURSIVE AtomPaths(_, _)
AtomPaths(n, at) ==
    IF ClassName(n) \in {"BoolOp", "UnaryOp"}
    THEN Concat([i \in 1..Len(n.kids) |-> AtomPaths(n.kids[i], Append(at, i))])
    ELSE <<at>>

Range(s) == { s[i] : i \in 1..Len(s) }

\* the Name a caller gets from the Names of the nodes of block, merged
\* with Name.__or__
RECURSIVE MergedName(_, _)
MergedName(root, block) ==
    LET q    == CHOOSE x \in block : TRUE
        name == Name_init(strip(unparse(NodeAt(root, q))), q)
    IN IF block = {q} THEN name
       ELSE Name_or(name, MergedName(root, block \ {q}))

SameLabel(root, block) ==
    \A q1, q2 \in block :
        strip(unparse(NodeAt(root, q1))) = strip(unparse(NodeAt(root, q2)))

\* the operand lists over the atoms in S: disjoint blocks of equally
\* labelled atoms, in any order, covering S or not
RECURSIVE OperandListsOver(_, _)
OperandListsOver(root, S) ==
    {<<>>} \cup
    UNION { { <<MergedName(root, B)>> \o rest : rest \in OperandListsOver(root, S \ B) }
            : B \in { X \in SUBSET S : X # {} /\ SameLabel(root, X) } }

OperandLists(root) == OperandListsOver(root, Range(AtomPaths(root, <<>>)))

\* the assignments handed to evaluate: every tuple of the operands' length,
\* and one that is too long
Assignments(nameSet) ==
    Range(product(<<FALSE, TRUE>>, Len(nameSet)))
        \cup { [i \in 1..(Len(nameSet) + 1) |-> FALSE] }

Init ==
    /\ node \in Exprs
    /\ pc = "start"
    /\ names = <<>>
    /\ conditions = <<>>
    /\ condition = <<>>
    /\ value = NoValue
    /\ rows = <<>>
    /\ bool_ops = <<>>
    /\ sep = DefaultSep
    /\ text = <<>>

\* rows = truth_table(node): the table, or the exception evaluate raised
TruthTable ==
    /\ pc = "start"
    /\ LET tt == truth_table(node, <<>>) IN
        /\ names' = tt.names
        /\ conditions' = tt.conditions
        /\ value' = [exc |-> tt.exc, val |-> FALSE]
        /\ rows' = IF tt.exc = "" THEN tt.rows ELSE <<>>
        /\ pc' = IF tt.exc = "" THEN "table" ELSE "raised"
    /\ UNCHANGED <<node, condition, bool_ops, sep, text>>

\* text = simple_table(rows, sep)
SimpleTable ==
    /\ pc = "table"
    /\ text' = simple_table(rows, sep)
    /\ pc' = "done"
    /\ UNCHANGED <<node, names, conditions, condition, value, rows, bool_ops, sep>>

\* value = evaluate(node, names, condition)
Evaluate ==
    /\ pc = "start"
    /\ \E ns \in OperandLists(node) :
         \E c \in Assignments(ns) :
            /\ names' = ns
            /\ condition' = c
            /\ value' = evaluate(node, <<>>, ns, c)
    /\ pc' = "evaluated"
    /\ UNCHANGED <<node, conditions, rows, bool_ops, sep, text>>

Next == TruthTable \/ SimpleTable \/ Evaluate

Spec == Init /\ [][Next]_vars

(***************************************************************************)
(* Notions the properties are stated with.                                 *)
(***************************************************************************)
RECURSIVE Pow2(_)
Pow2(n) == IF n = 0 THEN 1 ELSE 2 * Pow2(n - 1)

\* the bit of weight w (a power of two) of k
Bit(k, w) == ((k \div w) % 2) = 1

\* every unary operator met on the way to the atoms is Not
RECURSIVE NotOnly(_)
NotOnly(n) ==
    /\ ClassName(n) = "UnaryOp" => n.op = "Not"
    /\ ClassName(n) \in {"BoolOp", "UnaryOp"} => \A i \in 1..Len(n.kids) : NotOnly(n.kids[i])

Label(root, path) == strip(unparse(NodeAt(root, path)))

LabelsOf(nameSet) == [i \in 1..Len(nameSet) |-> nameSet[i].name]

\* the labels of the atoms of root, left to right, repetitions included
AtomLabels(root) ==
    LET ps == AtomPaths(root, <<>>) IN [i \in 1..Len(ps) |-> Label(root, ps[i])]

\* s without the later occurrences of its elements
RECURSIVE FirstOccurrences(_, _)
FirstOccurrences(s, seen) ==
    IF s = <<>> THEN <<>>
    ELSE IF Head(s) \in seen THEN FirstOccurrences(Tail(s), seen)
    ELSE <<Head(s)>> \o FirstOccurrences(Tail(s), seen \cup {Head(s)})

Registered(nameSet) == UNION { nameSet[i].nodes : i \in 1..Len(nameSet) }

\* the value of an expression over And, Or, Not: an atom has the value its
\* operand is assigned
RECURSIVE Ref(_, _, _, _)
Ref(n, at, nameSet, c) ==
    IF ClassName(n) = "BoolOp"
    THEN IF n.op = "And"
         THEN \A i \in 1..Len(n.kids) : Ref(n.kids[i], Append(at, i), nameSet, c)
         ELSE \E i \in 1..Len(n.kids) : Ref(n.kids[i], Append(at, i), nameSet, c)
    ELSE IF ClassName(n) = "UnaryOp"
    THEN ~Ref(n.kids[1], Append(at, 1), nameSet, c)
    ELSE c[CHOOSE i \in 1..Len(nameSet) : at \in nameSet[i].nodes]

\* the value of an expression over And, Or, Not when every atom has the
\* value given to its label
RECURSIVE RefByLabel(_, _)
RefByLabel(n, valueOf) ==
    IF ClassName(n) = "BoolOp"
    THEN IF n.op = "And"
         THEN \A i \in 1..Len(n.kids) : RefByLabel(n.kids[i], valueOf)
         ELSE \E i \in 1..Len(n.kids) : RefByLabel(n.kids[i], valueOf)
    ELSE IF ClassName(n) = "UnaryOp"
    THEN ~RefByLabel(n.kids[1], valueOf)
    ELSE valueOf[strip(unparse(n))]

AandB == BoolOpNode("And", <<NameNode("a"), NameNode("b")>>)
AandBandA == BoolOpNode("And", <<NameNode("a"), NameNode("b"), NameNode("a")>>)
AandNotA == BoolOpNode("And", <<NameNode("a"), NotNode(NameNode("a"))>>)
AandBorC ==
    BoolOpNode("And", <<NameNode("a"), BoolOpNode("Or", <<NameNode("b"), NameNode("c")>>)>>)
(***************************************************************************)
(* C1.  For a BoolOp tree over And/Or/Not with n distinct atom labels,     *)
(* truth_table returns 2^n + 1 rows, each of arity n + 1, also when a      *)
(* label occurs at several positions.                                      *)
(***************************************************************************)
C1_RowsByDistinctLabels ==
    (pc = "table" /\ ClassName(node) = "BoolOp" /\ NotOnly(node)) =>
        LET n == Cardinality(Range(AtomLabels(node))) IN
        /\ Len(rows) = Pow2(n) + 1
        /\ \A r \in 1..Len(rows) : Len(rows[r]) = n + 1

C3_OneOperandPerLabel ==
    (pc = "table" /\ NotOnly(node)) =>
        LabelsOf(names) = FirstOccurrences(AtomLabels(node), {})

(***************************************************************************)
(* C4.  For an expression over And, Or, Not and atoms, an operand list     *)
(* that registers each atom and an assignment of the same length, evaluate *)
(* returns the value computed structurally.                                *)
(***************************************************************************)
C4_EvaluateIsStructural ==
    (/\ pc = "evaluated"
     /\ NotOnly(node)
     /\ Range(AtomPaths(node, <<>>)) \subseteq Registered(names)
     /\ Len(condition) = Len(names))
        => value = Return(Ref(node, <<>>, names, condition))

C4_Witness ==
    /\ pc = "evaluated"
    /\ node = AandBorC
    /\ LabelsOf(names) = << <<"a">>, <<"b">>, <<"c">> >>
    /\ condition = <<TRUE, FALSE, TRUE>>
    /\ value = Return(TRUE)

(***************************************************************************)
(* C5.  In every data row of truth_table all occurrences of a label have   *)
(* the same truth value, and the result is the value of the expression as  *)
(* a function of its labels; `a and not a` has two data rows, both False.  *)
(***************************************************************************)
C5_ResultIsFunctionOfLabels ==
    (pc = "table" /\ ClassName(node) = "BoolOp" /\ NotOnly(node)) =>
        /\ \A r \in 2..Len(rows) :
             /\ \A i, j \in 1..Len(names) :
                   names[i].name = names[j].name => rows[r][i].b = rows[r][j].b
             /\ LET valueOf == [l \in Range(LabelsOf(names)) |->
                                   rows[r][CHOOSE i \in 1..Len(names) : names[i].name = l].b]
                IN rows[r][Len(rows[r])].b = RefByLabel(node, valueOf)
        /\ (node = AandNotA =>
              /\ Len(rows) = 3
              /\ \A r \in 2..Len(rows) : ~rows[r][Len(rows[r])].b)

(***************************************************************************)
(* C9.  A direct operand of a BoolOp that is a UnaryOp other than Not is   *)
(* atomic: it contributes one operand, labelled with its whole text and    *)
(* carrying its node, nothing is extracted from inside it, and truth_table *)
(* completes.                                                              *)
(***************************************************************************)
\* the direct operands, with another unary operator than Not, of the BoolOps
\* that extraction flattens
RECURSIVE DirectOtherUnary(_, _)
DirectOtherUnary(n, at) ==
    IF ClassName(n) = "BoolOp"
    THEN UNION { IF ClassName(n.kids[i]) = "UnaryOp" /\ n.kids[i].op # "Not"
                 THEN {Append(at, i)}
                 ELSE DirectOtherUnary(n.kids[i], Append(at, i)) : i \in 1..Len(n.kids) }
    ELSE IF ClassName(n) = "UnaryOp" /\ n.op = "Not"
    THEN DirectOtherUnary(n.kids[1], Append(at, 1))
    ELSE {}

\* no other unary operator than Not is the operand of a Not that extraction
\* flattens (there it is no direct operand of a BoolOp)
RECURSIVE NoneUnderNot(_)
NoneUnderNot(n) ==
    IF ClassName(n) = "BoolOp"
    THEN \A i \in 1..Len(n.kids) :
            \/ ClassName(n.kids[i]) = "UnaryOp" /\ n.kids[i].op # "Not"
            \/ NoneUnderNot(n.kids[i])
    ELSE IF ClassName(n) = "UnaryOp"
    THEN n.op = "Not" /\ NoneUnderNot(n.kids[1])
    ELSE TRUE

C9_OtherUnaryIsAtomic ==
    (pc \in {"table", "raised"} /\ ClassName(node) = "BoolOp" /\ NoneUnderNot(node)) =>
        \A p \in DirectOtherUnary(node, <<>>) :
           /\ pc = "table"
           /\ \E i \in 1..Len(names) :
                 names[i].nodes = {p} /\ names[i].name = Label(node, p)
           /\ \A q \in Registered(names) :
                 ~(Len(q) > Len(p) /\ SubSeq(q, 1, Len(p)) = p)

(***************************************************************************)
(* C10.  For an expression over And/Or/Not every evaluate call made by     *)
(* truth_table has len(names) == len(conditions) and finds every atom by   *)
(* node identity: nothing is raised and the table is complete.  When       *)
(* evaluate reaches an atom that no operand registers, the lookup error    *)
(* reaches the caller and no truth value is returned.                      *)
(***************************************************************************)
C10_LookupNeverFailsNorDefaults ==
    /\ (pc \in {"table", "raised"} /\ NotOnly(node)) =>
          /\ pc = "table"
          /\ value.exc = ""
          /\ Range(AtomPaths(node, <<>>)) \subseteq Registered(names)
          /\ \A k \in 1..Len(conditions) : Len(conditions[k]) = Len(names)
          /\ Len(rows) = Pow2(Len(names)) + 1
    /\ (/\ pc = "evaluated"
        /\ NotOnly(node)
        /\ Len(condition) = Len(names)
        /\ ~(Range(AtomPaths(node, <<>>)) \subseteq Registered(names)))
          => value = Raise("ValueError")

C10_Witness ==
    /\ pc = "table"
    /\ node = AandBandA
    /\ Len(names) = 3
    /\ Len(rows) = 9

\* the other half of C10: an operand list without the atom b
C10_WitnessLookupError ==
    /\ pc = "evaluated"
    /\ node = AandB
    /\ LabelsOf(names) = << <<"a">> >>
    /\ Len(condition) = 1
    /\ value = Raise("ValueError")

(***************************************************************************)
(* SpecCollect: probably_truthy(node) and collect_bool_ops(node) on a tree.*)
(***************************************************************************)
InitCollect ==
    /\ node \in Trees
    /\ pc = "start"
    /\ names = <<>>
    /\ conditions = <<>>
    /\ condition = <<>>
    /\ value = NoValue
    /\ rows = <<>>
    /\ bool_ops = <<>>
    /\ sep = DefaultSep
    /\ text = <<>>

\* value = probably_truthy(node)
ProbablyTruthy ==
    /\ pc = "start"
    /\ value' = Return(probably_truthy(node))
    /\ pc' = "filtered"
    /\ UNCHANGED <<node, names, conditions, condition, rows, bool_ops, sep, text>>

\* bool_ops = collect_bool_ops(node)
CollectBoolOps ==
    /\ pc = "start"
    /\ bool_ops' = collect_bool_ops(node, <<>>)
    /\ pc' = "collected"
    /\ UNCHANGED <<node, names, conditions, condition, value, rows, sep, text>>

NextCollect == ProbablyTruthy \/ CollectBoolOps

SpecCollect == InitCollect /\ [][NextCollect]_vars

(***************************************************************************)
(* C6.  probably_truthy is true exactly of a BoolOp none of whose operands,*)
(* followed through nested BoolOps, is of a literal kind.  So no node but  *)
(* a BoolOp is a candidate, a BoolOp without operands is one, a BoolOp     *)
(* with a direct literal operand is none, and a BoolOp of literals only is *)
(* not collected.                                                          *)
(***************************************************************************)
\* the operands of a BoolOp that are no BoolOps, nested BoolOps' included
RECURSIVE BoolOpOperands(_)
BoolOpOperands(n) ==
    UNION { IF n.kids[i].kind = "BoolOp" THEN BoolOpOperands(n.kids[i]) ELSE {n.kids[i]}
            : i \in 1..Len(n.kids) }

IsLiteral(n) == n.kind \in {"Str", "Num", "List", "Set", "Dict"}

C6_CandidateFilter ==
    /\ pc = "filtered" =>
          /\ value.exc = ""
          /\ value.val <=> (/\ node.kind = "BoolOp"
                            /\ \A v \in BoolOpOperands(node) : ~IsLiteral(v))
          /\ node.kind # "BoolOp" => ~value.val
          /\ (node.kind = "BoolOp" /\ node.kids = <<>>) => value.val
          /\ (node.kind = "BoolOp" /\ \E i \in 1..Len(node.kids) : IsLiteral(node.kids[i]))
                => ~value.val
    /\ pc = "collected" =>
          \A p \in Paths(node, <<>>) :
             LET v == NodeAt(node, p) IN
             (/\ v.kind = "BoolOp"
              /\ v.kids # <<>>
              /\ \A i \in 1..Len(v.kids) : IsLiteral(v.kids[i]))
                => p \notin Range(bool_ops)

C6_Witness ==
    /\ pc = "filtered"
    /\ node.kind = "BoolOp"
    /\ Len(node.kids) = 2
    /\ node.kids[1].kind = "Name"
    /\ node.kids[2].kind = "BoolOp"
    /\ node.kids[2].kids # <<>>
    /\ IsLiteral(node.kids[2].kids[1])
    /\ ~value.val

(***************************************************************************)
(* C7.  collect_bool_ops returns exactly the BoolOps of the tree that pass *)
(* probably_truthy, each once, in pre-order: a candidate comes before the  *)
(* nodes of its subtree and before later siblings; candidates nested in    *)
(* candidates or in BoolOps that fail the filter are listed too.           *)
(***************************************************************************)
\* p comes before q in pre-order: p is an ancestor of q, or goes left of q
\* where they part
Before(p, q) ==
    \/ Len(p) < Len(q) /\ SubSeq(q, 1, Len(p)) = p
    \/ \E k \in 1..Len(p) :
          /\ k <= Len(q)
          /\ SubSeq(p, 1, k - 1) = SubSeq(q, 1, k - 1)
          /\ p[k] < q[k]

C7_CollectsCandidatesInPreOrder ==
    pc = "collected" =>
        /\ Range(bool_ops) = { p \in Paths(node, <<>>) :
                                  /\ NodeAt(node, p).kind = "BoolOp"
                                  /\ probably_truthy(NodeAt(node, p)) }
        /\ \A i, j \in 1..Len(bool_ops) : i < j => Before(bool_ops[i], bool_ops[j])

C7_Witness ==
    /\ pc = "collected"
    /\ Len(bool_ops) = 2
    /\ bool_ops[1] = <<2>>
    /\ bool_ops[2] = <<2, 1>>
    /\ node.kind = "BoolOp"
    /\ ~probably_truthy(node)

(***************************************************************************)
(* SpecRender: simple_table(rows, sep) on a table of the caller.           *)
(***************************************************************************)
\* the largest padding tried besides the default
MaxSep == 1

Cells ==
    { StrCell(Repeat("x", k)) : k \in 0..MaxText } \cup { BoolCell(b) : b \in BOOLEAN }

\* the tables of r rows of c cells, r * c <= MaxCells, and the tables
\* truth_table makes of the example expressions
Tables ==
    UNION { [1..rc[1] -> [1..rc[2] -> Cells]] :
              rc \in { x \in (1..MaxCells) \X (0..MaxCells) : x[1] * x[2] <= MaxCells } }
    \cup { truth_table(e, <<>>).rows : e \in Examples }

InitRender ==
    /\ rows \in Tables
    /\ sep \in (0..MaxSep) \cup {DefaultSep}
    /\ pc = "table"
    /\ node = NameNode("a")   \* no expression takes part
    /\ names = <<>>
    /\ conditions = <<>>
    /\ condition = <<>>
    /\ value = NoValue
    /\ bool_ops = <<>>
    /\ text = <<>>

NextRender == SimpleTable

SpecRender == InitRender /\ [][NextRender]_vars

(***************************************************************************)
(* C8.  simple_table emits len(rows) + 1 lines: the header, the separator, *)
(* the other rows in order.  In every line column i takes w_i + sep        *)
(* characters, w_i the largest text length of the column, with nothing     *)
(* between the columns; a cell is centred with the smaller half of the     *)
(* slack on its left; the separator holds w_i dashes centred likewise.     *)
(***************************************************************************)
\* the lines of a text: what lies between its newlines
SplitLines(t) ==
    LET nl == { i \in 1..Len(t) : t[i] = "\n" }
        \* the position of the k-th newline; 0 and Len(t) + 1 bound the text
        pos(k) == IF k = 0 THEN 0
                  ELSE IF k > Cardinality(nl) THEN Len(t) + 1
                  ELSE CHOOSE i \in nl : Cardinality({ j \in nl : j < i }) = k - 1
    IN [k \in 1..(Cardinality(nl) + 1) |-> SubSeq(t, pos(k - 1) + 1, pos(k) - 1)]

RECURSIVE SeqSum(_)
SeqSum(s) == IF s = <<>> THEN 0 ELSE Head(s) + SeqSum(Tail(s))

\* the largest text length of column i (0 at least)
Width(i) ==
    LET lengths == { Len(str(rows[r][i])) : r \in 1..Len(rows) } \cup {0}
    IN CHOOSE w \in lengths : \A x \in lengths : x <= w

\* the text of column i in a line
Column(line, i) ==
    LET off == SeqSum([j \in 1..(i - 1) |-> Width(j) + sep])
    IN SubSeq(line, off + 1, off + Width(i) + sep)

Centred(s, field) ==
    LET slack == field - Len(s)
        left  == slack \div 2
    IN Repeat(" ", left) \o s \o Repeat(" ", slack - left)

C8_AlignedTable ==
    pc = "done" =>
        LET lines == SplitLines(text)
            cols  == Len(rows[1])
            total == SeqSum([i \in 1..cols |-> Width(i) + sep])
            rowOf(l) == IF l = 1 THEN 1 ELSE l - 1
        IN /\ Len(lines) = Len(rows) + 1
           /\ \A l \in 1..Len(lines) :
                /\ Len(lines[l]) = total
                /\ \A i \in 1..cols :
                     Column(lines[l], i) =
                        Centred(IF l = 2 THEN Repeat("-", Width(i)) ELSE str(rows[rowOf(l)][i]),
                                Width(i) + sep)

C8_Witness ==
    /\ pc = "done"
    /\ rows = truth_table(AandB, <<>>).rows
    /\ sep = DefaultSep
    /\ SubSeq(SplitLines(text)[4], 1, 9) = <<" ", " ", "F", "a", "l", "s", "e", " ", " ">>
    /\ SubSeq(SplitLines(text)[4], 10, 18) = <<" ", " ", "T", "r", "u", "e", " ", " ", " ">>

=============================================================================
